---- MODULE Spec2Model ----
(***************************************************************************)
(* Power monitor backend (Mode A): the token session, the telemetry poll,  *)
(* the schedule enforcement and the manual-command watcher of index.js,    *)
(* as one state machine.                                                   *)
(*                                                                         *)
(* Granularity.  Node runs one callback at a time, so a step of the model  *)
(* is one synchronous run of a handler: it starts at a timer tick, a       *)
(* watcher event or the completion of an awaited call and runs to the next *)
(* await that really suspends (an HTTP call or a database write).  An      *)
(* await of an already settled promise (ensureToken with a token held)     *)
(* only yields to the microtask queue and is part of the same step.        *)
(*                                                                         *)
(* A device request (status, commands) is answered by the vendor when it   *)
(* is sent: the answer, and the effect on the relay, are fixed in the step *)
(* that sends it and wait in resp[p] until the handler resumes.  So the    *)
(* vendor can answer two requests in one order and the handlers can resume *)
(* in the other.  The audit write of sendToggleCommand is applied when it  *)
(* is issued and its outcome waits in resp[p] likewise.  The outcome of a  *)
(* token exchange is chosen when the handler resumes.                      *)
(*                                                                         *)
(* The writes that end a handler (readings, status/current, the clearing   *)
(* of control/command) are taken in the step that issues the first of      *)
(* them: what runs after them reads and writes only nodes no other handler *)
(* touches, so the order of these steps among the other handlers' steps    *)
(* changes no value anyone reads.                                          *)
(*                                                                         *)
(* Server timestamps (timestamp, updatedAt, errorAt, at) are left out of   *)
(* the stored records.  The schedule node and its cached copy are one      *)
(* variable: the watcher's delivery is taken in the step of the write.     *)
(* One activation of each handler is in flight at a time.  The runs are    *)
(* bounded by the number of triggers taken (timer ticks that start work,   *)
(* writes of the schedule, clock changes, restarts): events counts them.   *)
(***************************************************************************)
EXTENDS Integers, Sequences, FiniteSets, TLC

\* ------------------------------------------------------------ bounds
MaxEvents == 3
MaxExpired == 2
\* The requests and re-authentications of one fetch are counted up to here.
MaxCounted == 3

\* --------------------------------------------------------- constants
LOAD_THRESHOLD_W == 5

\* JavaScript null / an absent field, and a present value.
Null == <<>>
Some(x) == <<x>>
Val(o) == o[1]

\* ------------------------------------------------ telemetry (pure)
\* A JavaScript number n/d, kept exact.
Num(n, d) == [n |-> n, d |-> d]
Geq(x, w) == x.n >= w * x.d

NoData == [voltage |-> Num(0, 1), current |-> Num(0, 1), power |-> Num(0, 1),
           isOn |-> FALSE]

\* One pass of the for-of loop body over item.
ApplyItem(acc, item) ==
    LET a1 == IF item.code = "cur_voltage"
              THEN [acc EXCEPT !.voltage = Num(item.value, 10)] ELSE acc
        a2 == IF item.code = "cur_current"
              THEN [a1 EXCEPT !.current = Num(item.value, 1000)] ELSE a1
        a3 == IF item.code = "cur_power"
              THEN [a2 EXCEPT !.power = Num(item.value, 10)] ELSE a2
    IN  IF item.code = "switch_1" THEN [a3 EXCEPT !.isOn = item.value] ELSE a3

RECURSIVE FoldItems(_, _)
FoldItems(acc, list) ==
    IF list = <<>> THEN acc ELSE FoldItems(ApplyItem(acc, Head(list)), Tail(list))

\* A variant of LoadOn that wants more than the threshold.
LoadOnAbove(d) == d.isOn /\ d.power.n > LOAD_THRESHOLD_W * d.power.d

LoadOn(d) == d.isOn /\ Geq(d.power, LOAD_THRESHOLD_W)

\* The value getDeviceStatus returns for a successful status list.
Telemetry(list) ==
    LET d == FoldItems(NoData, list)
    IN  [voltage |-> d.voltage, current |-> d.current, power |-> d.power,
         isOn |-> d.isOn, loadOn |-> LoadOn(d)]

\* The reading pollStatusAndSave builds from the telemetry.
Reading(data) ==
    [voltage |-> data.voltage, current |-> data.current, power |-> data.power,
     is_on |-> data.isOn, load_on |-> data.loadOn]

\* ------------------------------------------------- schedule (pure)
NaN == -1
Digits == <<"0", "1", "2", "3", "4", "5", "6", "7", "8", "9">>
IsDigit(c) == \E i \in 1..10 : Digits[i] = c
DigitVal(c) == (CHOOSE i \in 1..10 : Digits[i] = c) - 1

\* parseInt(s, 10) of a string without sign or blanks: its leading digits.
RECURSIVE ParseDigits(_, _, _)
ParseDigits(s, i, acc) ==
    IF i > Len(s) \/ ~IsDigit(SubSeq(s, i, i)) THEN acc
    ELSE ParseDigits(s, i + 1, 10 * (IF acc = NaN THEN 0 ELSE acc)
                                 + DigitVal(SubSeq(s, i, i)))
ParseInt(s) == ParseDigits(s, 1, NaN)

\* s.split(":")
RECURSIVE SplitFrom(_, _, _)
SplitFrom(s, from, i) ==
    IF i > Len(s) THEN <<SubSeq(s, from, Len(s))>>
    ELSE IF SubSeq(s, i, i) = ":"
         THEN <<SubSeq(s, from, i - 1)>> \o SplitFrom(s, i + 1, i + 1)
         ELSE SplitFrom(s, from, i + 1)
Split(s) == SplitFrom(s, 1, 1)

\* const [h, m] = s.split(":").map(parseInt); h * 60 + m
Part(parts, k) == IF k <= Len(parts) THEN ParseInt(parts[k]) ELSE NaN
Minutes(s) ==
    LET parts == Split(s)
        h == Part(parts, 1)
        m == Part(parts, 2)
    IN  IF h = NaN \/ m = NaN THEN NaN ELSE h * 60 + m

\* cfg.start / cfg.end: the string, or the default when it is not a string.
StartOf(cfg) == IF cfg.start = Null THEN "08:00" ELSE Val(cfg.start)
EndOf(cfg) == IF cfg.end = Null THEN "21:00" ELSE Val(cfg.end)

\* A variant of DayActive that does not look at the weekday.
DayActiveAlways(days, todayIndex) == TRUE

\* days[todayIndex], an index past the array being undefined (falsy).
DayActive(days, todayIndex) ==
    todayIndex + 1 <= Len(days) /\ days[todayIndex + 1]

\* A variant of InWindow whose end minute belongs to the window.
InWindowEndIncluded(nowMinutes, startMinutes, endMinutes) ==
    IF startMinutes = NaN \/ endMinutes = NaN THEN FALSE
    ELSE IF startMinutes <= endMinutes
         THEN nowMinutes >= startMinutes /\ nowMinutes <= endMinutes
         ELSE nowMinutes >= startMinutes \/ nowMinutes <= endMinutes

\* The window test on minutes; a comparison with NaN is false.
InWindow(nowMinutes, startMinutes, endMinutes) ==
    IF startMinutes = NaN \/ endMinutes = NaN THEN FALSE
    ELSE IF startMinutes <= endMinutes
         THEN nowMinutes >= startMinutes /\ nowMinutes < endMinutes
         ELSE nowMinutes >= startMinutes \/ nowMinutes < endMinutes

isWithinSchedule(t, cfg) ==
    IF cfg = Null \/ ~Val(cfg).isEnabled THEN FALSE
    ELSE IF ~DayActive(Val(cfg).days, t.day) THEN FALSE
    ELSE InWindow(t.hours * 60 + t.minutes,
                  Minutes(StartOf(Val(cfg))), Minutes(EndOf(Val(cfg))))

\* ------------------------------- schedule of part_002 (pure)
\* parseTimeStr: const [h, m] = (str || "00:00").split(":").map(parseInt);
\* { h: h || 0, m: m || 0 }
parseTimeStr(str) ==
    LET parts == Split(IF str = "" THEN "00:00" ELSE str)
        h == Part(parts, 1)
        m == Part(parts, 2)
    IN  [h |-> IF h = NaN THEN 0 ELSE h, m |-> IF m = NaN THEN 0 ELSE m]

\* schedule.start || "08:00", schedule.end || "21:00"
StartOr(schedule) ==
    IF schedule.start = Null \/ Val(schedule.start) = "" THEN "08:00"
    ELSE Val(schedule.start)
EndOr(schedule) ==
    IF schedule.end = Null \/ Val(schedule.end) = "" THEN "21:00"
    ELSE Val(schedule.end)

\* isWithinSchedule of part_002
isWithinSchedule002(t, schedule) ==
    IF schedule = Null \/ ~Val(schedule).isEnabled THEN FALSE
    ELSE IF ~DayActive(Val(schedule).days, t.day) THEN FALSE
    ELSE LET start == parseTimeStr(StartOr(Val(schedule)))
             end == parseTimeStr(EndOr(Val(schedule)))
             currentMinutes == t.hours * 60 + t.minutes
             startMinutes == start.h * 60 + start.m
             endMinutes == end.h * 60 + end.m
         IN  currentMinutes >= startMinutes /\ currentMinutes < endMinutes

\* =====================================================================
\* State
\* =====================================================================
VARIABLES
    accessToken,      \* let accessToken: Null or Some(token)
    lastKnownRelay,   \* let lastKnownRelay
    scheduleConfig,   \* let scheduleConfig (the schedule node, as cached)
    now,              \* the wall clock new Date() reads
    deviceRelay,      \* switch_1 of the plug itself
    command,          \* control/command
    applied,          \* times the watcher applied the last record written to it
    lastAction,       \* control/lastAction
    status,           \* status/current
    readings,         \* readings (the log)
    pc,               \* where each handler is suspended
    resp,             \* the settled result of the call each handler awaits
    desired,          \* turnOn of the sendToggleCommand call in flight
    reqs,             \* status requests sent by the fetch in flight
    expired,          \* 1010 answers given to the fetch in flight
    reauths,          \* token exchanges begun after a 1010 by that fetch
    events,           \* triggers taken so far
    firstCall,        \* the poll in flight is the call made at start
    accessTokenExpireAt  \* let accessTokenExpireAt (part_002 only), ms

vars == <<accessToken, lastKnownRelay, scheduleConfig, now, deviceRelay, command,
          applied, lastAction, status, readings, pc, resp, desired, reqs, expired, reauths,
          events, firstCall, accessTokenExpireAt>>

Procs == {"poll", "sched", "cmd"}
Togglers == {"sched", "cmd"}
Source(p) == IF p = "sched" THEN "schedule" ELSE "app"

\* ------------------------------------------------------- environment
Token == Some("token")

\* res.data.msg of a refused request: absent (falsy) here.
VendorMsgs == {""}
AxiosMsg == "timeout of 15000ms exceeded"
StoreMsg == "PERMISSION_DENIED"

\* cur_power the plug reports with the relay closed, in deciwatts.
PowerSamples == {300}

Times == {[day |-> 1, hours |-> 12, minutes |-> 0],
          [day |-> 1, hours |-> 23, minutes |-> 30]}

AllDays == <<TRUE, TRUE, TRUE, TRUE, TRUE, TRUE, TRUE>>
Overnight == [isEnabled |-> TRUE, days |-> AllDays,
              start |-> Some("21:00"), end |-> Some("06:00")]
Daytime == [isEnabled |-> TRUE, days |-> AllDays,
            start |-> Some("08:00"), end |-> Some("21:00")]
Disabled == [Daytime EXCEPT !.isEnabled = FALSE]
ScheduleConfigs == {Null, Some(Overnight), Some(Disabled)}

\* What the app writes to control/command.
Commands == {Some([turnOn |-> TRUE]), Some([turnOn |-> FALSE])}

\* ----------------------------------------------------------- answers
NoResp == [kind |-> "none", result |-> <<>>, msg |-> ""]
Ok == [kind |-> "ok", result |-> <<>>, msg |-> ""]
OkStatus(list) == [kind |-> "ok", result |-> list, msg |-> ""]
\* success:false with code 1010
Expired == [kind |-> "expired", result |-> <<>>, msg |-> ""]
\* success:false with another code
Rejected(m) == [kind |-> "rejected", result |-> <<>>, msg |-> m]
\* the request threw (network error, timeout)
Threw(m) == [kind |-> "error", result |-> <<>>, msg |-> m]

StatusList(power) ==
    <<[code |-> "cur_voltage", value |-> 2345],
      [code |-> "cur_current", value |-> 120],
      [code |-> "cur_power", value |-> power],
      [code |-> "switch_1", value |-> deviceRelay]>>

StatusAnswers ==
    {OkStatus(StatusList(w)) : w \in (IF deviceRelay THEN PowerSamples ELSE {0})}
    \cup (IF expired < MaxExpired THEN {Expired} ELSE {})
    \cup {Rejected(m) : m \in VendorMsgs}
    \cup {Threw(AxiosMsg)}

\* What the caller of a command request can tell apart: the message of a
\* failure is only logged, so a request that threw counts as a refusal.  A
\* request the plug acted on is one that was answered with success.
CommandAnswers == {Ok, Expired, Rejected("")}
TokenAnswers == {Ok, Threw(AxiosMsg)} \cup {Rejected(m) : m \in VendorMsgs}
WriteAnswers == {Ok, Threw(StoreMsg)}

\* ------------------------------------------------------------ idioms
\* a || b on strings
OrElse(a, b) == IF a # "" THEN a ELSE b
\* String(err.message || err) of an Error with that message
ErrText(message) == OrElse(message, "Error")

\* One more trigger: a timer tick that acts, a watcher event, a clock change.
Spend ==
    /\ events < MaxEvents
    /\ events' = events + 1

Go(p, to, r) ==
    /\ pc' = [pc EXCEPT ![p] = to]
    /\ resp' = [resp EXCEPT ![p] = r]

\* status/current after set({...reading, deviceOnline: true})
OnlineStatus(r) ==
    [reading |-> Some(r), deviceOnline |-> Some(TRUE), lastError |-> Null]
\* A variant of OfflineStatus whose update leaves deviceOnline as it was.
OfflineStatusKeepsOnline(old, text) ==
    [reading |-> IF old = Null THEN Null ELSE Val(old).reading,
     deviceOnline |-> IF old = Null THEN Null ELSE Val(old).deviceOnline,
     lastError |-> Some(text)]

\* status/current after update({deviceOnline: false, lastError})
OfflineStatus(old, text) ==
    [reading |-> IF old = Null THEN Null ELSE Val(old).reading,
     deviceOnline |-> Some(FALSE), lastError |-> Some(text)]

Init ==
    /\ accessTokenExpireAt = 0
    /\ accessToken = Null
    /\ lastKnownRelay = FALSE
    /\ scheduleConfig \in ScheduleConfigs
    /\ now \in Times
    /\ deviceRelay \in BOOLEAN
    /\ command = Null
    /\ applied = 0
    /\ lastAction = Null
    /\ status = Null
    /\ readings = <<>>
    \* pollStatusAndSave() is called once at start: its fetch finds no token
    \* and awaits the token exchange
    /\ pc = [p \in Procs |-> IF p = "poll" THEN "tokenWait" ELSE "idle"]
    /\ resp = [p \in Procs |-> NoResp]
    /\ desired = [p \in Togglers |-> FALSE]
    /\ reqs = 0
    /\ expired = 0
    /\ reauths = 0
    /\ events = 0
    /\ firstCall = TRUE

\* =====================================================================
\* The telemetry poll
\* =====================================================================
Shared == <<scheduleConfig, now, deviceRelay, command, applied, lastAction, desired,
            accessTokenExpireAt>>

\* getDeviceStatus past ensureToken: the signed GET is sent and answered.
SendStatus ==
    /\ \E a \in StatusAnswers :
          /\ Go("poll", "statusWait", a)
          /\ expired' = IF a.kind = "expired" THEN expired + 1 ELSE expired
    /\ reqs' = reqs + 1

\* The cycle is over.
PollDone ==
    /\ Go("poll", "idle", NoResp)
    /\ reqs' = 0 /\ expired' = 0 /\ reauths' = 0
    /\ firstCall' = FALSE

\* pollStatusAndSave rejects.  The call made at start has a catch attached;
\* the calls the timer makes have none, and the unhandled rejection ends the
\* process or, on a runtime that only warns, is dropped.
PollRejected ==
    \/ PollDone
    \/ /\ ~firstCall
       /\ pc' = [p \in Procs |-> "exited"]
       /\ resp' = [p \in Procs |-> NoResp]
       /\ reqs' = 0 /\ expired' = 0 /\ reauths' = 0
       /\ firstCall' = FALSE

\* await statusRef.update({deviceOnline: false, lastError: String(err.message
\* || err)}), the last statement of the catch: the cycle ends with it, or it
\* rejects out of pollStatusAndSave.
MarkOffline(message) ==
    \E w \in WriteAnswers :
       IF w.kind = "ok"
       THEN /\ status' = Some(OfflineStatus(status, ErrText(message)))
            /\ PollDone
       ELSE /\ status' = status
            /\ PollRejected

\* The catch of pollStatusAndSave.
PollCatch(message) == MarkOffline(message)

\* setInterval(pollStatusAndSave, 60 * 1000)
PollStart ==
    /\ pc["poll"] = "idle"
    /\ Spend
    /\ IF accessToken = Null
       THEN Go("poll", "tokenWait", NoResp) /\ UNCHANGED <<reqs, expired>>
       ELSE SendStatus
    /\ UNCHANGED <<accessToken, lastKnownRelay, status, readings, reauths,
                   firstCall>>
    /\ UNCHANGED Shared

\* The message of the Error refreshAccessToken throws.
TokenError(t) ==
    IF t.kind = "rejected" THEN "Token error: " \o OrElse(t.msg, "unknown")
    ELSE t.msg

\* refreshAccessToken resumes inside the fetch.
PollTokenResume ==
    /\ pc["poll"] = "tokenWait"
    /\ \E t \in TokenAnswers :
          IF t.kind = "ok"
          THEN /\ accessToken' = Token
               /\ SendStatus
               /\ UNCHANGED <<status, reauths, firstCall>>
          ELSE /\ PollCatch(TokenError(t))
               /\ UNCHANGED accessToken
    /\ UNCHANGED <<lastKnownRelay, readings, events>>
    /\ UNCHANGED Shared

\* A variant of OnAuthExpired that fetches again with the token it holds.
OnAuthExpiredKeepsToken ==
    /\ accessToken' = accessToken
    /\ SendStatus
    /\ UNCHANGED <<lastKnownRelay, status, readings, reauths, firstCall>>

\* The 1010 branch of getDeviceStatus: drop the token, ensureToken, fetch again.
OnAuthExpired ==
    /\ accessToken' = Null
    /\ Go("poll", "tokenWait", NoResp)
    /\ reauths' = reauths + 1
    /\ UNCHANGED <<lastKnownRelay, status, readings, reqs, expired, firstCall>>

\* A variant of Persist that sets status/current whether or not the push
\* was stored.
PersistStatusAnyway(r) ==
    /\ \E push \in WriteAnswers :
          readings' = IF push.kind = "ok" THEN Append(readings, r) ELSE readings
    /\ status' = Some(OnlineStatus(r))
    /\ PollDone

\* await readingsRef.push(reading); await statusRef.set({...}), and the catch.
Persist(r) ==
    \E push \in WriteAnswers :
       IF push.kind = "ok"
       THEN /\ readings' = Append(readings, r)
            /\ \E set \in WriteAnswers :
                  IF set.kind = "ok"
                  THEN status' = Some(OnlineStatus(r)) /\ PollDone
                  ELSE MarkOffline(set.msg)
       ELSE /\ readings' = readings
            /\ MarkOffline(push.msg)

\* The fetch returned data: the try block of pollStatusAndSave.
OnTelemetry(data) ==
    /\ lastKnownRelay' = data.isOn
    /\ Persist(Reading(data))
    /\ UNCHANGED accessToken

\* The message of the Error a refused or failed status request throws.
StatusError(r) ==
    IF r.kind = "rejected" THEN OrElse(r.msg, "Failed to get status") ELSE r.msg

\* axios.get of the status resumes.
PollStatusResume ==
    /\ pc["poll"] = "statusWait"
    /\ LET r == resp["poll"] IN
       CASE r.kind = "ok" -> OnTelemetry(Telemetry(r.result))
         [] r.kind = "expired" -> OnAuthExpired
         [] OTHER ->
              /\ PollCatch(StatusError(r))
              /\ UNCHANGED <<accessToken, lastKnownRelay, readings>>
    /\ UNCHANGED events
    /\ UNCHANGED Shared

\* =====================================================================
\* sendToggleCommand, as called by enforceSchedule and the command watcher
\* =====================================================================
PollLocals == <<status, readings, reqs, expired, reauths, firstCall,
                accessTokenExpireAt>>
Quiet == UNCHANGED <<pc, resp, desired, deviceRelay, events>>

\* The signed POST is sent and answered.
SendCommand(p, turnOn) ==
    \E a \in CommandAnswers :
       /\ Go(p, "commandWait", a)
       /\ deviceRelay' = IF a.kind = "ok" THEN turnOn ELSE deviceRelay

\* sendToggleCommand(turnOn, source) up to its first suspending await.
ToggleCall(p, turnOn) ==
    /\ Spend
    /\ desired' = [desired EXCEPT ![p] = turnOn]
    /\ IF accessToken = Null
       THEN Go(p, "tokenWait", NoResp) /\ UNCHANGED deviceRelay
       ELSE SendCommand(p, turnOn)

\* The caller's catch (both callers only log).
ToggleFailed(p) ==
    /\ Go(p, "idle", NoResp)
    /\ desired' = [desired EXCEPT ![p] = FALSE]

\* A variant of ToggleTokenResume in which refreshAccessToken stores the
\* token before it looks at res.data.success.
ToggleTokenResumeStored(p) ==
    /\ pc[p] = "tokenWait"
    /\ \E t \in TokenAnswers :
          IF t.kind = "ok"
          THEN /\ accessToken' = Token
               /\ SendCommand(p, desired[p])
               /\ UNCHANGED desired
          ELSE /\ ToggleFailed(p)
               /\ accessToken' = IF t.kind = "rejected" THEN Token ELSE accessToken
               /\ UNCHANGED deviceRelay
    /\ UNCHANGED <<lastKnownRelay, scheduleConfig, now, command, applied, lastAction>>
    /\ UNCHANGED PollLocals
    /\ UNCHANGED events

\* refreshAccessToken resumes inside sendToggleCommand.
ToggleTokenResume(p) ==
    /\ pc[p] = "tokenWait"
    /\ \E t \in TokenAnswers :
          IF t.kind = "ok"
          THEN /\ accessToken' = Token
               /\ SendCommand(p, desired[p])
               /\ UNCHANGED desired
          ELSE /\ ToggleFailed(p)
               /\ UNCHANGED <<accessToken, deviceRelay>>
    /\ UNCHANGED <<lastKnownRelay, scheduleConfig, now, command, applied, lastAction>>
    /\ UNCHANGED PollLocals
    /\ UNCHANGED events

\* A variant of WriteLastAction that does not await the audit write, which
\* is lost.
WriteLastActionDetached(p) ==
    /\ Go(p, "auditWait", Ok)
    /\ lastAction' = lastAction

\* db.ref("control/lastAction").set({turnOn, source, at})
WriteLastAction(p) ==
    \E w \in WriteAnswers :
       /\ Go(p, "auditWait", w)
       /\ lastAction' = IF w.kind = "ok"
                        THEN Some([turnOn |-> desired[p], source |-> Source(p)])
                        ELSE lastAction

\* A variant of ToggleCommandResume in which the caller has assigned
\* lastKnownRelay before sendToggleCommand returned.
ToggleCommandResumeAssigned(p) ==
    /\ pc[p] = "commandWait"
    /\ IF resp[p].kind = "ok"
       THEN WriteLastAction(p) /\ UNCHANGED <<desired, lastKnownRelay>>
       ELSE /\ ToggleFailed(p)
            /\ lastKnownRelay' = desired[p]
            /\ UNCHANGED lastAction
    /\ UNCHANGED <<accessToken, scheduleConfig, now, deviceRelay, command, applied>>
    /\ UNCHANGED PollLocals
    /\ UNCHANGED events

\* axios.post of the command resumes.
ToggleCommandResume(p) ==
    /\ pc[p] = "commandWait"
    /\ IF resp[p].kind = "ok"
       THEN WriteLastAction(p) /\ UNCHANGED desired
       ELSE ToggleFailed(p) /\ UNCHANGED lastAction
    /\ UNCHANGED <<accessToken, lastKnownRelay, scheduleConfig, now, deviceRelay,
                   command, applied>>
    /\ UNCHANGED PollLocals
    /\ UNCHANGED events

\* enforceSchedule after sendToggleCommand returned.
ScheduleApplied ==
    /\ lastKnownRelay' = desired["sched"]
    /\ Go("sched", "idle", NoResp)
    /\ desired' = [desired EXCEPT !["sched"] = FALSE]
    /\ UNCHANGED <<command, applied>>

\* The command watcher after sendToggleCommand returned:
\* lastKnownRelay = desired; await commandRef.set(null)
ManualApplied ==
    /\ lastKnownRelay' = desired["cmd"]
    /\ applied' = applied + 1
    /\ \E w \in WriteAnswers : command' = IF w.kind = "ok" THEN Null ELSE command
    /\ Go("cmd", "idle", NoResp)
    /\ desired' = [desired EXCEPT !["cmd"] = FALSE]

\* The audit write resumes: sendToggleCommand returns to its caller, whose
\* continuation is Returned, or throws into the caller's catch.
AuditResume(p, Returned) ==
    /\ pc[p] = "auditWait"
    /\ IF resp[p].kind = "ok"
       THEN Returned
       ELSE ToggleFailed(p) /\ UNCHANGED <<lastKnownRelay, command, applied>>
    /\ UNCHANGED <<accessToken, scheduleConfig, now, deviceRelay, lastAction>>
    /\ UNCHANGED PollLocals
    /\ UNCHANGED events

ToggleAuditResume(p) ==
    AuditResume(p, IF p = "sched" THEN ScheduleApplied ELSE ManualApplied)

\* =====================================================================
\* The two triggers
\* =====================================================================
\* The decision of enforceSchedule.
\* A variant of ScheduleDecide without the isEnabled part of the early return.
ScheduleDecideUnguarded ==
    IF scheduleConfig = Null
    THEN Quiet
    ELSE LET shouldBeOn == isWithinSchedule(now, scheduleConfig) IN
         IF shouldBeOn = lastKnownRelay
         THEN Quiet
         ELSE ToggleCall("sched", shouldBeOn)

ScheduleDecide ==
    IF scheduleConfig = Null \/ ~Val(scheduleConfig).isEnabled
    THEN Quiet
    ELSE LET shouldBeOn == isWithinSchedule(now, scheduleConfig) IN
         IF shouldBeOn = lastKnownRelay
         THEN Quiet
         ELSE ToggleCall("sched", shouldBeOn)

\* setInterval(enforceSchedule, 30 * 1000)
enforceSchedule ==
    /\ pc["sched"] = "idle"
    /\ ScheduleDecide
    /\ UNCHANGED <<accessToken, lastKnownRelay, scheduleConfig, now, command,
                   applied, lastAction>>
    /\ UNCHANGED PollLocals

\* A variant of ManualDecide without the comparison with lastKnownRelay.
ManualDecideAlways(cmd) == ToggleCall("cmd", cmd.turnOn)

\* The decision of the command watcher for a record cmd.
ManualDecide(cmd) ==
    LET want == cmd.turnOn IN
    IF want = lastKnownRelay
    THEN Quiet
    ELSE ToggleCall("cmd", want)

\* The app writes control/command and the watcher's handler runs on it.
CommandWritten ==
    /\ pc["cmd"] = "idle"
    /\ \E cmd \in Commands :
          /\ command' = cmd
          /\ applied' = 0
          /\ ManualDecide(Val(cmd))
    /\ UNCHANGED <<accessToken, lastKnownRelay, scheduleConfig, now, lastAction>>
    /\ UNCHANGED PollLocals

\* =====================================================================
\* The environment
\* =====================================================================
\* A variant of ScheduleUpdated that copies the enabled flag of the new
\* value into the cached object instead of replacing it.
ScheduleUpdatedInPlace ==
    /\ \E cfg \in ScheduleConfigs \ {scheduleConfig} :
          scheduleConfig' =
             IF cfg = Null \/ scheduleConfig = Null THEN cfg
             ELSE Some([Val(scheduleConfig) EXCEPT !.isEnabled = Val(cfg).isEnabled])
    /\ Spend
    /\ UNCHANGED <<accessToken, lastKnownRelay, now, deviceRelay, command,
                   applied, lastAction, pc, resp, desired>>
    /\ UNCHANGED PollLocals

\* The schedule node is rewritten; scheduleRef.on replaces the cached value.
ScheduleUpdated ==
    /\ \E cfg \in ScheduleConfigs \ {scheduleConfig} : scheduleConfig' = cfg
    /\ Spend
    /\ UNCHANGED <<accessToken, lastKnownRelay, now, deviceRelay, command,
                   applied, lastAction, pc, resp, desired>>
    /\ UNCHANGED PollLocals

ClockAdvance ==
    /\ \E t \in Times \ {now} : now' = t
    /\ Spend
    /\ UNCHANGED <<accessToken, lastKnownRelay, scheduleConfig, deviceRelay,
                   command, applied, lastAction, pc, resp, desired>>
    /\ UNCHANGED PollLocals

Next ==
    \/ PollStart
    \/ PollTokenResume
    \/ PollStatusResume
    \/ enforceSchedule
    \/ CommandWritten
    \/ \E p \in Togglers : ToggleTokenResume(p)
    \/ \E p \in Togglers : ToggleCommandResume(p)
    \/ \E p \in Togglers : ToggleAuditResume(p)
    \/ ScheduleUpdated
    \/ ClockAdvance

Spec == Init /\ [][Next]_vars

\* =====================================================================
\* The earlier build (unnamed/part_000).  Its command watcher leaves
\* control/command in place, and its start awaits a token before it sets
\* the two timers.  The process can be stopped and started again: the
\* database and the plug keep their state, the module variables start
\* over, and the command watcher delivers the record it finds.
\* =====================================================================
\* The command watcher after sendToggleCommand returned: lastKnownRelay = desired
ManualApplied000 ==
    /\ lastKnownRelay' = desired["cmd"]
    /\ command' = command
    /\ applied' = applied + 1
    /\ Go("cmd", "idle", NoResp)
    /\ desired' = [desired EXCEPT !["cmd"] = FALSE]

ToggleAuditResume000(p) ==
    AuditResume(p, IF p = "sched" THEN ScheduleApplied ELSE ManualApplied000)

\* await ensureToken() of main resumes; a failure is logged; the timers are set.
main000 ==
    /\ pc["poll"] = "boot"
    /\ \E t \in TokenAnswers :
          accessToken' = IF t.kind = "ok" THEN Token ELSE accessToken
    /\ Go("poll", "idle", NoResp)
    /\ UNCHANGED <<lastKnownRelay, events>>
    /\ UNCHANGED PollLocals
    /\ UNCHANGED Shared

\* The timer of enforceSchedule exists once main has set it.
enforceSchedule000 ==
    /\ pc["poll"] # "boot"
    /\ enforceSchedule

\* The process starts again.  The watcher's first event carries the record
\* in control/command; lastKnownRelay is false and no token is held.
Restart000 ==
    /\ Spend
    /\ accessToken' = Null
    /\ lastKnownRelay' = FALSE
    /\ LET replay == command # Null /\ Val(command).turnOn # FALSE IN
       /\ pc' = [p \in Procs |-> IF p = "poll" THEN "boot"
                                 ELSE IF p = "cmd" /\ replay THEN "tokenWait"
                                 ELSE "idle"]
       /\ desired' = [p \in Togglers |-> p = "cmd" /\ replay]
    /\ resp' = [p \in Procs |-> NoResp]
    /\ reqs' = 0 /\ expired' = 0 /\ reauths' = 0
    /\ firstCall' = FALSE
    /\ UNCHANGED <<scheduleConfig, now, deviceRelay, command, applied, lastAction,
                   status, readings, accessTokenExpireAt>>

Init000 ==
    /\ accessTokenExpireAt = 0
    /\ accessToken = Null
    /\ lastKnownRelay = FALSE
    /\ scheduleConfig \in ScheduleConfigs
    /\ now \in Times
    /\ deviceRelay \in BOOLEAN
    /\ command = Null
    /\ applied = 0
    /\ lastAction = Null
    /\ status = Null
    /\ readings = <<>>
    /\ pc = [p \in Procs |-> IF p = "poll" THEN "boot" ELSE "idle"]
    /\ resp = [p \in Procs |-> NoResp]
    /\ desired = [p \in Togglers |-> FALSE]
    /\ reqs = 0
    /\ expired = 0
    /\ reauths = 0
    /\ events = 0
    /\ firstCall = FALSE

Next000 ==
    \/ main000
    \/ PollStart
    \/ PollTokenResume
    \/ PollStatusResume
    \/ enforceSchedule000
    \/ CommandWritten
    \/ \E p \in Togglers : ToggleTokenResume(p)
    \/ \E p \in Togglers : ToggleCommandResume(p)
    \/ \E p \in Togglers : ToggleAuditResume000(p)
    \/ ScheduleUpdated
    \/ ClockAdvance
    \/ Restart000

Spec000 == Init000 /\ [][Next000]_vars

\* =====================================================================
\* isWithinSchedule on its own: enforceSchedule evaluates it at any minute of
\* a Sunday or a Monday, for any of the sample configurations.
\* =====================================================================
\* Windows as written in the schedule node, with the minutes they stand for.
SampleWindows ==
    {[start |-> Some("21:00"), end |-> Some("06:00"), sm |-> 1260, em |-> 360],
     [start |-> Some("08:00"), end |-> Some("21:00"), sm |-> 480, em |-> 1260],
     [start |-> Null, end |-> Null, sm |-> 480, em |-> 1260],
     [start |-> Some("09:30"), end |-> Some("09:30"), sm |-> 570, em |-> 570],
     [start |-> Some("00:00"), end |-> Some("23:59"), sm |-> 0, em |-> 1439]}
MondayOnly == <<FALSE, TRUE, FALSE, FALSE, FALSE, FALSE, FALSE>>
SundayOnly == <<TRUE>>
SampleConfigs ==
    {Null} \cup
    {Some([isEnabled |-> e, days |-> d, start |-> w.start, end |-> w.end]) :
        e \in BOOLEAN, d \in {AllDays, MondayOnly, SundayOnly}, w \in SampleWindows}
SampleTimes ==
    {[day |-> d, hours |-> h, minutes |-> m] : d \in {0, 1}, h \in 0..23, m \in 0..59}

\* const now = new Date(); const shouldBeOn = isWithinSchedule(now, scheduleConfig)
EvaluateSchedule ==
    /\ pc["sched"] = "idle"
    /\ pc' = [pc EXCEPT !["sched"] = "evaluated"]
    /\ desired' = [desired EXCEPT !["sched"] = isWithinSchedule(now, scheduleConfig)]
    /\ UNCHANGED <<accessToken, lastKnownRelay, scheduleConfig, now, deviceRelay,
                   command, applied, lastAction, resp, events>>
    /\ UNCHANGED PollLocals

InitSchedule ==
    /\ accessTokenExpireAt = 0
    /\ accessToken = Null
    /\ lastKnownRelay = FALSE
    /\ scheduleConfig \in SampleConfigs
    /\ now \in SampleTimes
    /\ deviceRelay = FALSE
    /\ command = Null
    /\ applied = 0
    /\ lastAction = Null
    /\ status = Null
    /\ readings = <<>>
    /\ pc = [p \in Procs |-> "idle"]
    /\ resp = [p \in Procs |-> NoResp]
    /\ desired = [p \in Togglers |-> FALSE]
    /\ reqs = 0
    /\ expired = 0
    /\ reauths = 0
    /\ events = 0
    /\ firstCall = FALSE

NextSchedule == EvaluateSchedule

SpecSchedule == InitSchedule /\ [][NextSchedule]_vars

\* =====================================================================
\* Convergence.  From some point on every vendor call and every database
\* write succeeds, the schedule is enabled and is not rewritten, the clock
\* stays inside or outside the window, and no manual command arrives.  The
\* handlers are at rest at that point, or the process has ended before it.
\* The timers tick for ever, so the ticks are not counted here, and the
\* readings log, which only grows and which no handler reads, is not kept.
\* =====================================================================

\* setInterval(pollStatusAndSave, 60 * 1000), the status request answered
\* with the plug's state.
SteadyPollStart ==
    /\ pc["poll"] = "idle"
    /\ IF accessToken = Null
       THEN Go("poll", "tokenWait", NoResp)
       ELSE \E w \in (IF deviceRelay THEN PowerSamples ELSE {0}) :
               Go("poll", "statusWait", OkStatus(StatusList(w)))
    /\ UNCHANGED <<accessToken, lastKnownRelay, status, readings, reqs, expired,
                   reauths, firstCall, events>>
    /\ UNCHANGED Shared

\* refreshAccessToken resumes inside the fetch with a token.
SteadyPollTokenResume ==
    /\ PollTokenResume
    /\ pc'["poll"] = "statusWait"
    /\ resp'["poll"].kind = "ok"

\* The fetch returns telemetry and both writes are stored.
SteadyPollStatusResume ==
    /\ pc["poll"] = "statusWait"
    /\ resp["poll"].kind = "ok"
    /\ LET data == Telemetry(resp["poll"].result) IN
          /\ lastKnownRelay' = data.isOn
          /\ status' = Some(OnlineStatus(Reading(data)))
    /\ Go("poll", "idle", NoResp)
    /\ reqs' = 0 /\ expired' = 0 /\ reauths' = 0
    /\ UNCHANGED <<accessToken, readings, firstCall, events>>
    /\ UNCHANGED Shared

\* setInterval(enforceSchedule, 30 * 1000), the command accepted by the plug.
SteadyEnforceSchedule ==
    /\ pc["sched"] = "idle"
    /\ scheduleConfig # Null /\ Val(scheduleConfig).isEnabled
    /\ LET shouldBeOn == isWithinSchedule(now, scheduleConfig) IN
          /\ shouldBeOn # lastKnownRelay
          /\ desired' = [desired EXCEPT !["sched"] = shouldBeOn]
          /\ IF accessToken = Null
             THEN Go("sched", "tokenWait", NoResp) /\ UNCHANGED deviceRelay
             ELSE Go("sched", "commandWait", Ok) /\ deviceRelay' = shouldBeOn
    /\ UNCHANGED <<accessToken, lastKnownRelay, scheduleConfig, now, command,
                   applied, lastAction, events>>
    /\ UNCHANGED PollLocals

\* refreshAccessToken resumes inside sendToggleCommand with a token, and the
\* plug accepts the command.
SteadyToggleTokenResume ==
    /\ ToggleTokenResume("sched")
    /\ pc'["sched"] = "commandWait"
    /\ resp'["sched"].kind = "ok"

\* The command was accepted and the audit write is stored.
SteadyToggleCommandResume ==
    /\ ToggleCommandResume("sched")
    /\ resp'["sched"].kind = "ok"

SteadyToggleAuditResume == ToggleAuditResume("sched")

InitSteady ==
    /\ accessTokenExpireAt = 0
    /\ accessToken \in {Null, Token}
    /\ lastKnownRelay \in BOOLEAN
    /\ scheduleConfig \in {Some(Overnight), Some(Daytime)}
    /\ now \in Times
    /\ deviceRelay \in BOOLEAN
    /\ command = Null
    /\ applied = 0
    /\ lastAction = Null
    /\ status = Null
    /\ readings = <<>>
    /\ \E at \in {"idle", "exited"} : pc = [p \in Procs |-> at]
    /\ resp = [p \in Procs |-> NoResp]
    /\ desired = [p \in Togglers |-> FALSE]
    /\ reqs = 0
    /\ expired = 0
    /\ reauths = 0
    /\ events = 0
    /\ firstCall = FALSE

NextSteady ==
    \/ SteadyPollStart
    \/ SteadyPollTokenResume
    \/ SteadyPollStatusResume
    \/ SteadyEnforceSchedule
    \/ SteadyToggleTokenResume
    \/ SteadyToggleCommandResume
    \/ SteadyToggleAuditResume

\* The timers keep firing and every awaited call completes.
SpecSteady ==
    /\ InitSteady
    /\ [][NextSteady]_vars
    /\ WF_vars(SteadyPollStart)
    /\ WF_vars(SteadyPollTokenResume)
    /\ WF_vars(SteadyPollStatusResume)
    /\ WF_vars(SteadyEnforceSchedule)
    /\ WF_vars(SteadyToggleTokenResume)
    /\ WF_vars(SteadyToggleCommandResume)
    /\ WF_vars(SteadyToggleAuditResume)

\* =====================================================================
\* Manual commands while the timers go on.  The app writes commands (a
\* bounded number of those that lead to a toggle) and the watcher's toggle
\* may fail at any of its calls; the poll and the schedule run as in the
\* convergence above, every one of their calls succeeding, for ever.
\* =====================================================================
InitPending ==
    /\ InitSteady
    /\ pc = [p \in Procs |-> "idle"]

NextPending ==
    \/ NextSteady
    \/ CommandWritten
    \/ ToggleTokenResume("cmd")
    \/ ToggleCommandResume("cmd")
    \/ ToggleAuditResume("cmd")

SpecPending ==
    /\ InitPending
    /\ [][NextPending]_vars
    /\ WF_vars(SteadyPollStart)
    /\ WF_vars(SteadyPollTokenResume)
    /\ WF_vars(SteadyPollStatusResume)
    /\ WF_vars(SteadyEnforceSchedule)
    /\ WF_vars(SteadyToggleTokenResume)
    /\ WF_vars(SteadyToggleCommandResume)
    /\ WF_vars(SteadyToggleAuditResume)
    /\ WF_vars(ToggleTokenResume("cmd"))
    /\ WF_vars(ToggleCommandResume("cmd"))
    /\ WF_vars(ToggleAuditResume("cmd"))

\* =====================================================================
\* The normalisation of getDeviceStatus on its own: the status request has
\* been answered with success and any of the sample lists, and the fetch
\* returns its telemetry to pollStatusAndSave.
\* =====================================================================
\* An item of the list, or none.
Item(code, v) == IF v = Null THEN <<>> ELSE <<[code |-> code, value |-> Val(v)]>>
SampleLists ==
    LET lists ==
          {<<Item("cur_voltage", v), Item("cur_current", c), Item("cur_power", w),
             Item("switch_1", sw)>> :
              v \in {Null, Some(2345), Some(0)},
              c \in {Null, Some(120)},
              w \in {Null, Some(0), Some(49), Some(50), Some(51), Some(300)},
              sw \in {Null, Some(TRUE), Some(FALSE)}}
        other == <<[code |-> "countdown_1", value |-> 0]>>
    IN  {l[1] \o l[2] \o l[3] \o l[4] : l \in lists}
        \cup {l[4] \o other \o l[3] \o l[2] \o l[1] : l \in lists}

\* getDeviceStatus returns { voltage, current, power, isOn, loadOn }
FetchReturns ==
    /\ pc["poll"] = "statusWait"
    /\ resp["poll"].kind = "ok"
    /\ Go("poll", "fetched",
          [kind |-> "data", result |-> Telemetry(resp["poll"].result), msg |-> ""])
    /\ UNCHANGED <<accessToken, lastKnownRelay, status, readings, reqs, expired,
                   reauths, firstCall, events>>
    /\ UNCHANGED Shared

InitTelemetry ==
    /\ accessTokenExpireAt = 0
    /\ accessToken = Token
    /\ lastKnownRelay = FALSE
    /\ scheduleConfig = Null
    /\ now \in Times
    /\ deviceRelay = FALSE
    /\ command = Null
    /\ applied = 0
    /\ lastAction = Null
    /\ status = Null
    /\ readings = <<>>
    /\ pc = [p \in Procs |-> IF p = "poll" THEN "statusWait" ELSE "idle"]
    /\ \E list \in SampleLists :
          resp = [p \in Procs |-> IF p = "poll" THEN OkStatus(list) ELSE NoResp]
    /\ desired = [p \in Togglers |-> FALSE]
    /\ reqs = 1
    /\ expired = 0
    /\ reauths = 0
    /\ events = 0
    /\ firstCall = TRUE

NextTelemetry == FetchReturns

SpecTelemetry == InitTelemetry /\ [][NextTelemetry]_vars

\* =====================================================================
\* The fetch against a vendor that is free to answer 1010 to every status
\* request.  The cycle is that of pollStatusAndSave; its counters stop at
\* MaxCounted, so that a fetch that goes on asking is a cycle of states.
\* Every awaited call settles and its continuation runs (weak fairness);
\* the timer's ticks are bounded by events.
\* =====================================================================
Counted(n) == IF n < MaxCounted THEN n + 1 ELSE n

\* getDeviceStatus past ensureToken, any answer possible.
SendStatusAny ==
    /\ \E a \in StatusAnswers \cup {Expired} :
          /\ Go("poll", "statusWait", a)
          /\ expired' = IF a.kind = "expired" THEN Counted(expired) ELSE expired
    /\ reqs' = Counted(reqs)

\* setInterval(pollStatusAndSave, 60 * 1000)
FetchStart ==
    /\ pc["poll"] = "idle"
    /\ Spend
    /\ IF accessToken = Null
       THEN Go("poll", "tokenWait", NoResp) /\ UNCHANGED <<reqs, expired>>
       ELSE SendStatusAny
    /\ UNCHANGED <<accessToken, lastKnownRelay, status, readings, reauths,
                   firstCall>>
    /\ UNCHANGED Shared

\* refreshAccessToken resumes inside the fetch.
FetchTokenResume ==
    /\ pc["poll"] = "tokenWait"
    /\ \E t \in TokenAnswers :
          IF t.kind = "ok"
          THEN /\ accessToken' = Token
               /\ SendStatusAny
               /\ UNCHANGED <<status, reauths, firstCall>>
          ELSE /\ PollCatch(TokenError(t))
               /\ UNCHANGED accessToken
    /\ UNCHANGED <<lastKnownRelay, readings, events>>
    /\ UNCHANGED Shared

\* axios.get of the status resumes; on 1010 the token is dropped and the
\* fetch calls itself.
FetchStatusResume ==
    /\ pc["poll"] = "statusWait"
    /\ LET r == resp["poll"] IN
       CASE r.kind = "ok" -> OnTelemetry(Telemetry(r.result))
         [] r.kind = "expired" ->
              /\ accessToken' = Null
              /\ Go("poll", "tokenWait", NoResp)
              /\ reauths' = Counted(reauths)
              /\ UNCHANGED <<lastKnownRelay, status, readings, reqs, expired,
                             firstCall>>
         [] OTHER ->
              /\ PollCatch(StatusError(r))
              /\ UNCHANGED <<accessToken, lastKnownRelay, readings>>
    /\ UNCHANGED events
    /\ UNCHANGED Shared

InitFetch ==
    /\ accessTokenExpireAt = 0
    /\ accessToken \in {Null, Token}
    /\ lastKnownRelay \in BOOLEAN
    /\ scheduleConfig \in ScheduleConfigs
    /\ now \in Times
    /\ deviceRelay \in BOOLEAN
    /\ command = Null
    /\ applied = 0
    /\ lastAction = Null
    /\ status = Null
    /\ readings = <<>>
    /\ pc = [p \in Procs |-> "idle"]
    /\ resp = [p \in Procs |-> NoResp]
    /\ desired = [p \in Togglers |-> FALSE]
    /\ reqs = 0
    /\ expired = 0
    /\ reauths = 0
    /\ events = 0
    /\ firstCall = FALSE

NextFetch == FetchStart \/ FetchTokenResume \/ FetchStatusResume

SpecFetch ==
    /\ InitFetch
    /\ [][NextFetch]_vars
    /\ WF_vars(FetchTokenResume)
    /\ WF_vars(FetchStatusResume)

\* =====================================================================
\* part_002: the REST variant with an expiry-aware token.  "sched" is the
\* callback of scheduleAndLoggingLoop, "cmd" the handler of POST /api/toggle,
\* "poll" the handler of GET /api/status.  now is Date.now(), in
\* milliseconds from a Sunday 00:00 local time; scheduleConfig is the
\* schedule node itself, which this variant reads on every cycle.  The
\* locals a handler keeps across an await travel in resp.  The push of
\* saveReadingToFirebase, whose rejection is caught, is taken together with
\* the step that calls it.  GET /api/stats, which only reads, is left out.
\* =====================================================================
Monday == 86400000
StartTimes == {Monday + 12 * 3600000, Monday + 23 * 3600000 + 30 * 60000}
TickMs == 30000
\* result.expire_time of the token answer, in seconds, or absent
ExpireTimes == {Null, Some(60), Some(90), Some(120)}
Schedules002 == ScheduleConfigs \cup {Some(Daytime)}

\* new Date(): getDay(), getHours(), getMinutes()
DateOf(ms) ==
    [day |-> (ms \div 86400000) % 7,
     hours |-> (ms \div 3600000) % 24,
     minutes |-> (ms \div 60000) % 60]

\* What this variant never touches.
Rest002 == <<lastKnownRelay, command, applied, lastAction, status, reqs, expired,
             reauths, firstCall>>

\* A variant of TokenIsFresh without the safety margin.
TokenIsFreshNoMargin == accessToken # Null /\ now < accessTokenExpireAt

\* ensureAccessToken: accessToken && now < accessTokenExpireAt - 60_000
TokenIsFresh == accessToken # Null /\ now < accessTokenExpireAt - 60000

\* ensureAccessToken sends the token request; now is its local of that name.
AskToken(p, to) ==
    \E a \in {[kind |-> "ok", result |-> [expire_time |-> e, now |-> now], msg |-> ""] :
                 e \in ExpireTimes}
             \cup {Rejected(""), Threw(AxiosMsg)} :
       Go(p, to, a)

\* accessToken = ...; accessTokenExpireAt = now + (expire_time || 7200) * 1000
StoreToken(r) ==
    /\ accessToken' = Token
    /\ accessTokenExpireAt' =
          r.now + (IF r.expire_time = Null \/ Val(r.expire_time) = 0
                   THEN 7200 ELSE Val(r.expire_time)) * 1000
KeepToken == UNCHANGED <<accessToken, accessTokenExpireAt>>

AskStatus(p) == \E a \in StatusAnswers : Go(p, "statusWait", a)

\* getDeviceStatusFromTuya is called.
GetStatus(p) ==
    IF TokenIsFresh THEN AskStatus(p) ELSE AskToken(p, "statusToken")

\* sendTuyaCommand(turnOn) is called.
SendTuya(p, turnOn) ==
    IF TokenIsFresh THEN SendCommand(p, turnOn)
    ELSE AskToken(p, "commandToken") /\ UNCHANGED deviceRelay

\* saveReadingToFirebase(status)
SaveReading(d) ==
    \E w \in WriteAnswers :
       readings' = IF w.kind = "ok" THEN Append(readings, Reading(d)) ELSE readings

\* getDeviceStatusFromTuya returned null to its caller.
NoStatus(p) ==
    /\ Go(p, "idle", NoResp)
    /\ UNCHANGED readings

\* getDeviceStatusFromTuya returned a status to its caller.
GotStatus(p, d) ==
    CASE p = "poll" -> Go(p, "idle", NoResp) /\ UNCHANGED readings
      [] p = "cmd" -> Go(p, "idle", NoResp) /\ SaveReading(d)
      [] p = "sched" ->
           /\ SaveReading(d)
           /\ \E read \in WriteAnswers :
                 Go(p, "scheduleWait",
                    [kind |-> "ok", msg |-> "",
                     result |-> [schedule |-> IF read.kind = "ok" THEN scheduleConfig
                                              ELSE Null,
                                 is_on |-> d.isOn]])

\* The 60 s timer of scheduleAndLoggingLoop fires.
LoopTick ==
    /\ pc["sched"] = "idle"
    /\ Spend
    /\ GetStatus("sched")
    /\ KeepToken
    /\ UNCHANGED <<scheduleConfig, now, deviceRelay, readings, desired>>
    /\ UNCHANGED Rest002

\* GET /api/status
StatusRequest ==
    /\ pc["poll"] = "idle"
    /\ Spend
    /\ GetStatus("poll")
    /\ KeepToken
    /\ UNCHANGED <<scheduleConfig, now, deviceRelay, readings, desired>>
    /\ UNCHANGED Rest002

\* POST /api/toggle with { on }
ToggleRequest ==
    /\ pc["cmd"] = "idle"
    /\ Spend
    /\ \E on \in BOOLEAN :
          /\ desired' = [desired EXCEPT !["cmd"] = on]
          /\ SendTuya("cmd", on)
    /\ KeepToken
    /\ UNCHANGED <<scheduleConfig, now, readings>>
    /\ UNCHANGED Rest002

\* The token request of a status fetch resumes.
StatusTokenResume(p) ==
    /\ pc[p] = "statusToken"
    /\ IF resp[p].kind = "ok"
       THEN StoreToken(resp[p].result) /\ AskStatus(p) /\ UNCHANGED readings
       ELSE KeepToken /\ NoStatus(p)
    /\ UNCHANGED <<scheduleConfig, now, deviceRelay, desired, events>>
    /\ UNCHANGED Rest002

\* The status request resumes.
StatusResume(p) ==
    /\ pc[p] = "statusWait"
    /\ IF resp[p].kind = "ok"
       THEN GotStatus(p, Telemetry(resp[p].result))
       ELSE NoStatus(p)
    /\ KeepToken
    /\ UNCHANGED <<scheduleConfig, now, deviceRelay, desired, events>>
    /\ UNCHANGED Rest002

\* getSchedule resumes in the loop: the decision.
ScheduleResume ==
    /\ pc["sched"] = "scheduleWait"
    /\ LET schedule == resp["sched"].result.schedule
           isOn == resp["sched"].result.is_on
           shouldBeOn == isWithinSchedule002(DateOf(now), schedule)
       IN  IF schedule = Null \/ ~Val(schedule).isEnabled \/ shouldBeOn = isOn
           THEN Go("sched", "idle", NoResp) /\ UNCHANGED <<desired, deviceRelay>>
           ELSE /\ desired' = [desired EXCEPT !["sched"] = shouldBeOn]
                /\ SendTuya("sched", shouldBeOn)
    /\ KeepToken
    /\ UNCHANGED <<scheduleConfig, now, readings, events>>
    /\ UNCHANGED Rest002

\* The token request of sendTuyaCommand resumes.
CommandTokenResume(p) ==
    /\ pc[p] = "commandToken"
    /\ IF resp[p].kind = "ok"
       THEN StoreToken(resp[p].result) /\ SendCommand(p, desired[p])
       ELSE KeepToken /\ Go(p, "idle", NoResp) /\ UNCHANGED deviceRelay
    /\ UNCHANGED <<scheduleConfig, now, readings, desired, events>>
    /\ UNCHANGED Rest002

\* The command request resumes: sendTuyaCommand returns true or false; the
\* toggle handler goes on to fetch a fresh reading.
CommandResume(p) ==
    /\ pc[p] = "commandWait"
    /\ IF resp[p].kind = "ok" /\ p = "cmd"
       THEN GetStatus(p)
       ELSE Go(p, "idle", NoResp)
    /\ KeepToken
    /\ UNCHANGED <<scheduleConfig, now, deviceRelay, readings, desired, events>>
    /\ UNCHANGED Rest002

\* The schedule node is rewritten.
ScheduleUpdated002 ==
    /\ \E cfg \in Schedules002 \ {scheduleConfig} : scheduleConfig' = cfg
    /\ Spend
    /\ KeepToken
    /\ UNCHANGED <<now, deviceRelay, readings, pc, resp, desired>>
    /\ UNCHANGED Rest002

\* Time passes.
Tick002 ==
    /\ now' = now + TickMs
    /\ Spend
    /\ KeepToken
    /\ UNCHANGED <<scheduleConfig, deviceRelay, readings, pc, resp, desired>>
    /\ UNCHANGED Rest002

Init002 ==
    /\ accessToken = Null
    /\ accessTokenExpireAt = 0
    /\ lastKnownRelay = FALSE
    /\ scheduleConfig \in Schedules002
    /\ now \in StartTimes
    /\ deviceRelay \in BOOLEAN
    /\ command = Null
    /\ applied = 0
    /\ lastAction = Null
    /\ status = Null
    /\ readings = <<>>
    /\ pc = [p \in Procs |-> "idle"]
    /\ resp = [p \in Procs |-> NoResp]
    /\ desired = [p \in Togglers |-> FALSE]
    /\ reqs = 0
    /\ expired = 0
    /\ reauths = 0
    /\ events = 0
    /\ firstCall = FALSE

Next002 ==
    \/ LoopTick
    \/ StatusRequest
    \/ ToggleRequest
    \/ \E p \in Procs : StatusTokenResume(p)
    \/ \E p \in Procs : StatusResume(p)
    \/ ScheduleResume
    \/ \E p \in Togglers : CommandTokenResume(p)
    \/ \E p \in Togglers : CommandResume(p)
    \/ ScheduleUpdated002
    \/ Tick002

Spec002 == Init002 /\ [][Next002]_vars

\* =====================================================================
\* The schedule evaluation of part_002 on its own, over the sample schedules
\* and every minute of two days.
\* =====================================================================
\* const now = new Date(); const shouldBeOn = isWithinSchedule(now, schedule)
EvaluateSchedule002 ==
    /\ pc["sched"] = "idle"
    /\ pc' = [pc EXCEPT !["sched"] = "evaluated"]
    /\ desired' = [desired EXCEPT !["sched"] = isWithinSchedule002(now, scheduleConfig)]
    /\ UNCHANGED <<accessToken, lastKnownRelay, scheduleConfig, now, deviceRelay,
                   command, applied, lastAction, resp, events>>
    /\ UNCHANGED PollLocals

NextSchedule002 == EvaluateSchedule002

SpecSchedule002 == InitSchedule /\ [][NextSchedule002]_vars

\* =====================================================================
\* part_001: the one-shot-schedule variant.  Its only handler is
\* fetchAndSave ("poll"), called at start and by a 60 s timer; it goes on
\* into checkSchedule and toggleDevice.  scheduleConfig is the schedule node
\* { isEnabled, time, action }, read on every cycle; now is the wall clock
\* of Asia/Kuala_Lumpur.  The write of the reading is taken together with
\* the step that handles the status.
\* =====================================================================
Pad2(n) == Digits[(n \div 10) + 1] \o Digits[(n % 10) + 1]
\* now.toLocaleTimeString('en-US', { timeZone, hour12: false, hour: '2-digit',
\* minute: '2-digit' }): the hour after midnight is printed 00 or 24,
\* depending on the ICU data of the runtime.
TimeStrings(t) ==
    {h \o ":" \o Pad2(t.minutes) :
        h \in (IF t.hours = 0 THEN {"00", "24"} ELSE {Pad2(t.hours)})}

Times001 == {[day |-> 1, hours |-> 12, minutes |-> 0],
             [day |-> 1, hours |-> 0, minutes |-> 5]}
Schedules001 ==
    {Null} \cup
    {Some([isEnabled |-> e, time |-> t, action |-> a]) :
        e \in BOOLEAN, t \in {"12:00", "00:05"}, a \in BOOLEAN}

\* What this variant never touches.
Rest001 == <<lastKnownRelay, command, applied, lastAction, status, desired, reqs,
             expired, reauths, firstCall, accessTokenExpireAt>>

\* let data = { voltage, current, power, is_on }
Reading001(d) ==
    [voltage |-> d.voltage, current |-> d.current, power |-> d.power,
     is_on |-> d.isOn]

\* fetchAndSave builds and sends the status request with accessToken as it
\* is; the vendor does not accept a request without a token.
AskStatus001 ==
    \E a \in (IF accessToken' = Null THEN {Expired, Rejected(""), Threw(AxiosMsg)}
              ELSE StatusAnswers) :
       Go("poll", "statusWait", a)

\* toggleDevice builds and sends the command with accessToken as it is.
AskCommand001(turnOn) ==
    \E a \in (IF accessToken' = Null THEN {Expired, Rejected(""), Threw(AxiosMsg)}
              ELSE CommandAnswers \cup {Threw(AxiosMsg)}) :
       /\ Go("poll", "commandWait", [a EXCEPT !.result = turnOn])
       /\ deviceRelay' = IF a.kind = "ok" THEN turnOn ELSE deviceRelay

\* setInterval(fetchAndSave, 60 * 1000)
Fetch001Start ==
    /\ pc["poll"] = "idle"
    /\ Spend
    /\ accessToken' = accessToken
    /\ IF accessToken = Null
       THEN Go("poll", "tokenWait", NoResp)
       ELSE AskStatus001
    /\ UNCHANGED <<scheduleConfig, now, deviceRelay, readings>>
    /\ UNCHANGED Rest001

\* getAccessToken resumes, in fetchAndSave or in toggleDevice: it returns
\* true or false and its caller goes on either way.
Token001Resume ==
    /\ pc["poll"] \in {"tokenWait", "commandToken"}
    /\ \E t \in TokenAnswers :
          accessToken' = IF t.kind = "ok" THEN Token ELSE accessToken
    /\ IF pc["poll"] = "tokenWait"
       THEN AskStatus001 /\ UNCHANGED deviceRelay
       ELSE AskCommand001(resp["poll"].result)
    /\ UNCHANGED <<scheduleConfig, now, readings, events>>
    /\ UNCHANGED Rest001

\* The status request resumes.
Status001Resume ==
    /\ pc["poll"] = "statusWait"
    /\ LET r == resp["poll"] IN
       CASE r.kind = "ok" ->
              \E push \in WriteAnswers :
                 IF push.kind = "ok"
                 THEN /\ readings' = Append(readings, Reading001(Telemetry(r.result)))
                      /\ accessToken' = accessToken
                      /\ \E read \in WriteAnswers :
                            IF read.kind = "ok"
                            THEN Go("poll", "scheduleWait",
                                    [kind |-> "ok", msg |-> "",
                                     result |-> [schedule |-> scheduleConfig,
                                                 is_on |-> Telemetry(r.result).isOn]])
                            ELSE Go("poll", "idle", NoResp)
                 ELSE /\ readings' = readings
                      /\ accessToken' = Null
                      /\ Go("poll", "idle", NoResp)
         [] r.kind = "rejected" ->
              /\ accessToken' = accessToken
              /\ readings' = readings
              /\ Go("poll", "idle", NoResp)
         [] OTHER ->
              /\ accessToken' = Null
              /\ readings' = readings
              /\ Go("poll", "idle", NoResp)
    /\ UNCHANGED <<scheduleConfig, now, deviceRelay, events>>
    /\ UNCHANGED Rest001

\* A variant of checkSchedule that does not compare the time of day.
Schedule001ResumeAnyTime ==
    /\ pc["poll"] = "scheduleWait"
    /\ accessToken' = accessToken
    /\ LET schedule == resp["poll"].result.schedule
           currentStatus == resp["poll"].result.is_on
       IN  IF /\ schedule # Null
              /\ Val(schedule).isEnabled
              /\ currentStatus # Val(schedule).action
           THEN IF accessToken = Null
                THEN /\ Go("poll", "commandToken",
                           [NoResp EXCEPT !.result = Val(schedule).action])
                     /\ UNCHANGED deviceRelay
                ELSE AskCommand001(Val(schedule).action)
           ELSE Go("poll", "idle", NoResp) /\ UNCHANGED deviceRelay
    /\ UNCHANGED <<scheduleConfig, now, readings, events>>
    /\ UNCHANGED Rest001

\* checkSchedule after the schedule was read.
Schedule001Resume ==
    /\ pc["poll"] = "scheduleWait"
    /\ accessToken' = accessToken
    /\ LET schedule == resp["poll"].result.schedule
           currentStatus == resp["poll"].result.is_on
       IN  \E timeString \in TimeStrings(now) :
              IF /\ schedule # Null
                 /\ Val(schedule).isEnabled
                 /\ timeString = Val(schedule).time
                 /\ currentStatus # Val(schedule).action
              THEN IF accessToken = Null
                   THEN /\ Go("poll", "commandToken",
                              [NoResp EXCEPT !.result = Val(schedule).action])
                        /\ UNCHANGED deviceRelay
                   ELSE AskCommand001(Val(schedule).action)
              ELSE Go("poll", "idle", NoResp) /\ UNCHANGED deviceRelay
    /\ UNCHANGED <<scheduleConfig, now, readings, events>>
    /\ UNCHANGED Rest001

\* The command request resumes; its outcome is only logged.
Command001Resume ==
    /\ pc["poll"] = "commandWait"
    /\ Go("poll", "idle", NoResp)
    /\ UNCHANGED <<accessToken, scheduleConfig, now, deviceRelay, readings, events>>
    /\ UNCHANGED Rest001

Schedule001Updated ==
    /\ \E cfg \in Schedules001 \ {scheduleConfig} : scheduleConfig' = cfg
    /\ Spend
    /\ UNCHANGED <<accessToken, now, deviceRelay, readings, pc, resp>>
    /\ UNCHANGED Rest001

Clock001Advance ==
    /\ \E t \in Times001 \ {now} : now' = t
    /\ Spend
    /\ UNCHANGED <<accessToken, scheduleConfig, deviceRelay, readings, pc, resp>>
    /\ UNCHANGED Rest001

Init001 ==
    /\ accessToken = Null
    /\ accessTokenExpireAt = 0
    /\ lastKnownRelay = FALSE
    /\ scheduleConfig \in Schedules001
    /\ now \in Times001
    /\ deviceRelay \in BOOLEAN
    /\ command = Null
    /\ applied = 0
    /\ lastAction = Null
    /\ status = Null
    /\ readings = <<>>
    \* fetchAndSave() is called once at start and awaits the token exchange
    /\ pc = [p \in Procs |-> IF p = "poll" THEN "tokenWait" ELSE "idle"]
    /\ resp = [p \in Procs |-> NoResp]
    /\ desired = [p \in Togglers |-> FALSE]
    /\ reqs = 0
    /\ expired = 0
    /\ reauths = 0
    /\ events = 0
    /\ firstCall = TRUE

Next001 ==
    \/ Fetch001Start
    \/ Token001Resume
    \/ Status001Resume
    \/ Schedule001Resume
    \/ Command001Resume
    \/ Schedule001Updated
    \/ Clock001Advance

Spec001 == Init001 /\ [][Next001]_vars

\* =====================================================================
\* Properties
\* =====================================================================
\* Handler p is inside sendToggleCommand.
InSection(p) == pc[p] \in {"tokenWait", "commandWait", "auditWait"}
\* This step sends p's command request to the device.
Sent(p) == pc[p] # "commandWait" /\ pc'[p] = "commandWait"
\* This step resumes p from the answer to its command request.
CommandAnswered(p) ==
    pc[p] = "commandWait" /\ pc'[p] \notin {"commandWait", "exited"}
\* This step resumes p from its audit write.
AuditAnswered(p) ==
    pc[p] = "auditWait" /\ pc'[p] \notin {"auditWait", "exited"}
\* The audit record of p's call.
AuditRecord(p) == Some([turnOn |-> desired[p], source |-> Source(p)])

\* This step resumes the poll from a 1010 answer.
ExpiredAnswered ==
    pc["poll"] = "statusWait" /\ resp["poll"].kind = "expired"
                              /\ pc'["poll"] # "statusWait"
\* This step ends a poll cycle whose fetch returned telemetry.
FetchSucceeded ==
    /\ pc["poll"] = "statusWait"
    /\ resp["poll"].kind = "ok"
    /\ pc'["poll"] \in {"idle", "exited"}
\* This step ends a poll cycle whose fetch threw.
FetchFailed ==
    /\ pc["poll"] \in {"tokenWait", "statusWait"}
    /\ pc'["poll"] \in {"idle", "exited"}
    /\ ~FetchSucceeded
\* The reading of the telemetry the poll is about to resume with.
Fetched == Reading(Telemetry(resp["poll"].result))
\* status/current says offline, with an error text.
MarkedOffline(st) ==
    /\ st # Null
    /\ Val(st).deviceOnline = Some(FALSE)
    /\ Val(st).lastError # Null
    /\ Val(Val(st).lastError) # ""

\* C1: no command request is sent whose target equals lastKnownRelay at the
\* moment it is sent.
C1_NoRedundantToggle ==
    [][\A p \in Togglers : Sent(p) => desired'[p] # lastKnownRelay]_vars

\* C2: the manual-command handler and enforceSchedule are never both between
\* their read of lastKnownRelay and the end of their toggle.
C2_MutualExclusion == ~(InSection("sched") /\ InSection("cmd"))

\* C3: while a record is present in control/command, a toggle that
\* enforceSchedule sends has the record's value as its target.
C3_ManualPrecedence ==
    [][(Sent("sched") /\ command # Null)
          => desired'["sched"] = Val(command).turnOn]_vars

\* C4: a record written to control/command is applied at most once, and once
\* it has been applied control/command is null.
C4_ConsumedOnce ==
    /\ applied <= 1
    /\ applied = 1 => command = Null

\* C5: a 1010 answer makes the fetch drop the token and start one token
\* exchange without sending a request; a fetch that got 1010 once and then a
\* successful answer has sent two status requests and made one such
\* exchange, and returns the telemetry of that answer.
C5_ReauthOnce ==
    [][/\ ExpiredAnswered =>
             /\ accessToken' = Null
             /\ pc'["poll"] = "tokenWait"
             /\ reauths' = reauths + 1
             /\ reqs' = reqs
       /\ (FetchSucceeded /\ expired = 1) =>
             /\ reqs = 2
             /\ reauths = 1
             /\ lastKnownRelay' = Fetched.is_on]_vars
C5_Witness ==
    /\ pc["poll"] = "statusWait"
    /\ resp["poll"].kind = "ok"
    /\ expired = 1
    /\ reauths = 1
    /\ accessToken = Token

\* C6: a fetch whose status request got 1010 for the second time fails to
\* its caller, which ends the cycle; no third status request is sent.
C6_RetryOnce ==
    [][(ExpiredAnswered /\ expired = 2) => pc'["poll"] = "idle"]_vars

\* C7: sendToggleCommand that gets 1010 on its command request drops the
\* token and re-authenticates to send the command again; on another failure
\* it returns to its caller without a retry.
C7_CommandReauth ==
    [][\A p \in Togglers :
          CommandAnswered(p) =>
             CASE resp[p].kind = "expired" ->
                     accessToken' = Null /\ pc'[p] = "tokenWait"
               [] resp[p].kind = "rejected" -> pc'[p] = "idle"
               [] OTHER -> TRUE]_vars

\* C8: an accepted command is followed by the audit write, and the write
\* that is stored holds {turnOn, source} of the call; a refused command
\* writes no audit record and fails the call; the caller sets
\* lastKnownRelay only when the audit write succeeded, to the target.
C8_AuditWithCommand ==
    [][\A p \in Togglers :
          /\ CommandAnswered(p) =>
                IF resp[p].kind = "ok"
                THEN /\ pc'[p] = "auditWait"
                     /\ resp'[p].kind = "ok" => lastAction' = AuditRecord(p)
                     /\ lastKnownRelay' = lastKnownRelay
                ELSE /\ pc'[p] = "idle"
                     /\ lastAction' = lastAction
                     /\ lastKnownRelay' = lastKnownRelay
          /\ AuditAnswered(p) =>
                /\ pc'[p] = "idle"
                /\ lastKnownRelay' = IF resp[p].kind = "ok" THEN desired[p]
                                     ELSE lastKnownRelay
          /\ (pc'[p] \notin {pc[p], "exited"} /\ lastKnownRelay' # lastKnownRelay) =>
                AuditAnswered(p) /\ resp[p].kind = "ok"]_vars
\* The plug took the command, the audit write failed, and lastKnownRelay
\* still holds the old value.
C8_Witness ==
    \E p \in Togglers :
       /\ pc[p] = "auditWait"
       /\ resp[p].kind = "error"
       /\ deviceRelay = desired[p]
       /\ lastKnownRelay # desired[p]

\* C9 as stated: a cycle whose fetch failed ends with status/current offline
\* with a non-empty lastError, and with the readings it began with.
C9_OfflineMarked ==
    [][FetchFailed => (readings' = readings /\ MarkedOffline(status'))]_vars
\* C9: a cycle whose fetch failed leaves the readings as they were, and
\* status/current either holds deviceOnline:false and a non-empty lastError
\* over its former fields or, the update not being stored, is as it was.
C9_OfflineMarkedIfStored ==
    [][FetchFailed =>
          /\ readings' = readings
          /\ \/ status' = status
             \/ /\ MarkedOffline(status')
                /\ status' = Some(OfflineStatus(status, Val(Val(status').lastError)))
      ]_vars
C9_Witness ==
    /\ pc["poll"] = "idle"
    /\ readings = <<>>
    /\ status = Some(OfflineStatus(Null, "Failed to get status"))

\* C10 as stated: a cycle whose fetch succeeded appends its reading, sets
\* status/current to it with deviceOnline:true, and sets lastKnownRelay to
\* the reported switch state.
C10_Persisted ==
    [][FetchSucceeded =>
          /\ lastKnownRelay' = Fetched.is_on
          /\ readings' = Append(readings, Fetched)
          /\ status' = Some(OnlineStatus(Fetched))]_vars
\* C10: a cycle whose fetch succeeded sets lastKnownRelay to the reported
\* switch state; it appends its reading and sets status/current to it with
\* deviceOnline:true when both writes are stored; otherwise at most that
\* reading is appended and status/current is marked offline with the
\* store's error, or is as it was.
C10_PersistedIfStored ==
    [][FetchSucceeded =>
          /\ lastKnownRelay' = Fetched.is_on
          /\ \/ /\ readings' = Append(readings, Fetched)
                /\ status' = Some(OnlineStatus(Fetched))
             \/ /\ readings' \in {readings, Append(readings, Fetched)}
                /\ status' \in {status, Some(OfflineStatus(status, StoreMsg))}
      ]_vars
C10_Witness ==
    /\ pc["poll"] = "idle"
    /\ Len(readings) = 1
    /\ status = Some(OnlineStatus(readings[1]))
    /\ lastKnownRelay = readings[1].is_on
    /\ lastKnownRelay

\* status/current shows the device online.
ShownOnline(st) == st # Null /\ Val(st).deviceOnline = Some(TRUE)
\* This step ends p's toggle in its caller's catch.
ToggleThrew(p) ==
    /\ InSection(p)
    /\ pc'[p] = "idle"
    /\ ~(pc[p] = "auditWait" /\ resp[p].kind = "ok")

\* C11, for the toggle command: after a step in which a toggle failed,
\* status/current does not show deviceOnline:true.
C11_FailureShown ==
    [][(\E p \in Togglers : ToggleThrew(p)) => ~ShownOnline(status')]_vars

\* C12: no failure ends the process: the poll timer, the schedule timer and
\* the command watcher are all still there.
C12_KeepsRunning == \A p \in Procs : pc[p] # "exited"

\* The minute of the day of the clock.
MinuteOfDay == now.hours * 60 + now.minutes
\* The sample window the cached schedule was written with.
WindowOf(cfg) == CHOOSE w \in SampleWindows : w.start = cfg.start /\ w.end = cfg.end
\* Today's entry of the days array is there and true.
TodayListed(cfg) == now.day + 1 <= Len(cfg.days) /\ cfg.days[now.day + 1]
\* enforceSchedule has evaluated isWithinSchedule.
Evaluated == pc["sched"] = "evaluated"

\* C13: for an enabled schedule that lists today, the value of
\* isWithinSchedule is start <= now < end when start <= end, and
\* now >= start or now < end when start > end (minutes of the day).
C13_Window ==
    (Evaluated /\ scheduleConfig # Null) =>
       LET cfg == Val(scheduleConfig)
           w == WindowOf(cfg)
       IN  (cfg.isEnabled /\ TodayListed(cfg)) =>
              (desired["sched"] <=>
                  IF w.sm <= w.em
                  THEN w.sm <= MinuteOfDay /\ MinuteOfDay < w.em
                  ELSE MinuteOfDay >= w.sm \/ MinuteOfDay < w.em)
\* 21:00-06:00 evaluated at exactly 06:00 on a listed day: not within.
C13_Witness ==
    /\ Evaluated
    /\ scheduleConfig = Some(Overnight)
    /\ now = [day |-> 1, hours |-> 6, minutes |-> 0]
    /\ ~desired["sched"]

\* C14: isWithinSchedule is false when the schedule is absent, when it is not
\* enabled, and when today is not listed in its days.
C14_Inactive ==
    Evaluated =>
       ((\/ scheduleConfig = Null
         \/ ~Val(scheduleConfig).isEnabled
         \/ ~TodayListed(Val(scheduleConfig))) => ~desired["sched"])
\* An enabled 00:00-23:59 schedule for Mondays evaluated on a Sunday noon.
C14_Witness ==
    /\ Evaluated
    /\ scheduleConfig = Some([isEnabled |-> TRUE, days |-> MondayOnly,
                              start |-> Some("00:00"), end |-> Some("23:59")])
    /\ now = [day |-> 0, hours |-> 12, minutes |-> 0]
    /\ ~desired["sched"]

\* The relay of the plug is where the schedule wants it.
Converged == deviceRelay = isWithinSchedule(now, scheduleConfig)

\* C15: with the schedule enabled and constant, no manual command, and every
\* call succeeding, the relay of the plug eventually is where the schedule
\* wants it, and stays there.
C15_Converges == <>[]Converged

\* The same while the process is running.
ConvergesWhileRunning == <>[](Converged \/ pc["sched"] = "exited")

\* C16, for two toggles in flight together: once the plug has accepted
\* both commands and both audit writes are stored, so that only the returns
\* to the callers are left, turnOn of control/lastAction is the target of
\* the command the plug accepted last, which is where its relay is.
C16_AuditIsLatest ==
    (\A p \in Togglers : pc[p] = "auditWait" /\ resp[p].kind = "ok")
       => (lastAction # Null /\ Val(lastAction).turnOn = deviceRelay)

\* The value of the last item of list with that code, or none.
RawValue(list, code) ==
    LET at == {i \in 1..Len(list) : list[i].code = code}
    IN  IF at = {} THEN Null
        ELSE Some(list[CHOOSE i \in at : \A j \in at : j <= i].value)
\* The number x is raw/scale, or 0 when there is no raw value.
IsScaled(x, raw, scale) ==
    IF raw = Null THEN x.n = 0 ELSE x.n * scale = Val(raw) * x.d

\* C17: the telemetry the fetch returns has voltage = cur_voltage/10,
\* current = cur_current/1000, power = cur_power/10, isOn = switch_1 and
\* loadOn = (switch_1 and cur_power >= 50), a code that is not in the list
\* leaving 0 or false.
C17_Normalised ==
    [][(pc["poll"] = "statusWait" /\ pc'["poll"] = "fetched") =>
          LET list == resp["poll"].result
              t == resp'["poll"].result
              w == RawValue(list, "cur_power")
              sw == RawValue(list, "switch_1")
              on == sw # Null /\ Val(sw)
          IN  /\ IsScaled(t.voltage, RawValue(list, "cur_voltage"), 10)
              /\ IsScaled(t.current, RawValue(list, "cur_current"), 1000)
              /\ IsScaled(t.power, w, 10)
              /\ t.isOn = on
              /\ t.loadOn = (on /\ w # Null /\ Val(w) >= 50)]_vars
\* cur_voltage 2345, cur_current 120, cur_power 50 with the relay closed:
\* 234.5 V, 0.120 A, 5 W, load on.
C17_Witness ==
    /\ pc["poll"] = "fetched"
    /\ resp["poll"].result =
          [voltage |-> Num(2345, 10), current |-> Num(120, 1000),
           power |-> Num(50, 10), isOn |-> TRUE, loadOn |-> TRUE]

\* The watcher's handler ran on a new command and ended without a toggle.
NoOpCommand ==
    /\ pc["cmd"] = "idle"
    /\ pc'["cmd"] = "idle"
    /\ <<command', applied'>> # <<command, applied>>

\* C18: when the handler of a manual command ends without a toggle because
\* the desired value equals lastKnownRelay, control/command is null.
C18_NoOpClears == [][NoOpCommand => command' = Null]_vars

\* C19: a step in which a toggle of the schedule or of the command watcher
\* fails leaves lastKnownRelay as it was, ends no handler for good, and
\* leaves the trigger at rest, ready for its next run.
C19_FailureKeepsRelay ==
    [][\A p \in Togglers :
          ToggleThrew(p) =>
             /\ lastKnownRelay' = lastKnownRelay
             /\ \A q \in Procs : pc'[q] # "exited"
             /\ pc'[p] = "idle"]_vars
\* The command watcher's toggle has failed (the command is still pending,
\* nothing was audited, lastKnownRelay is not what it asked for), and the
\* schedule's cycle is running its own toggle.
C19_Witness ==
    /\ pc["cmd"] = "idle"
    /\ command # Null
    /\ Val(command).turnOn # lastKnownRelay
    /\ lastAction = Null
    /\ firstCall
    /\ pc["poll"] = "tokenWait"
    /\ expired = 0
    /\ pc["sched"] \in {"tokenWait", "commandWait"}

\* C20: every telemetry fetch that has started comes to an end, with
\* telemetry or with an error.
C20_FetchTerminates ==
    (pc["poll"] \in {"tokenWait", "statusWait"}) ~> (pc["poll"] \in {"idle", "exited"})

\* A handler at rest calls ensureToken in this step.
Called(p) == pc[p] = "idle" /\ pc'[p] \notin {"idle", "exited"}
\* The authentication exchange of p is answered in this step, with success
\* or not.
Exchanged(p) == pc[p] = "tokenWait" /\ pc'[p] \in {"statusWait", "commandWait"}
ExchangeFailed(p) == pc[p] = "tokenWait" /\ pc'[p] = "idle"
\* An exchange begins exactly when ensureToken finds no token, and only
\* while none is held; after a successful exchange a token is held.
ExchangeIffAbsent ==
    \A p \in Procs :
       /\ Called(p) => (pc'[p] = "tokenWait" <=> accessToken = Null)
       /\ (pc[p] # "tokenWait" /\ pc'[p] = "tokenWait") => accessToken' = Null
       /\ Exchanged(p) => accessToken' # Null

\* C21, as stated: an exchange begins iff no token is held, a successful one
\* leaves a token held, and after one that failed the token is absent.
C21_EnsureToken ==
    [][/\ ExchangeIffAbsent
       /\ \A p \in Procs : ExchangeFailed(p) => accessToken' = Null]_vars
\* C21, amended: an exchange that failed leaves the token as it was (absent,
\* unless the exchange of another handler has stored one meanwhile).
C21_EnsureTokenKeeps ==
    [][/\ ExchangeIffAbsent
       /\ \A p \in Procs : ExchangeFailed(p) => accessToken' = accessToken]_vars
\* The poll's exchange was rejected by the vendor: the cycle ended with the
\* error in status/current and no token is held.
C21_Witness ==
    /\ pc["poll"] = "idle"
    /\ status = Some(OfflineStatus(Null, "Token error: unknown"))
    /\ accessToken = Null

TokenStates == {"statusToken", "commandToken"}
RequestStates == {"statusWait", "commandWait"}
\* In this step handler p calls ensureAccessToken (from getDeviceStatusFromTuya
\* or sendTuyaCommand).
EnsureCalled(p) ==
    /\ pc[p] \notin TokenStates
    /\ pc'[p] # pc[p]
    /\ pc'[p] \in TokenStates \cup RequestStates
\* In this step the fresh authentication of p is answered with a failure.
AuthFailed(p) == pc[p] \in TokenStates /\ resp[p].kind # "ok" /\ pc'[p] # pc[p]

\* C22: ensureAccessToken hands out the held token without a token request
\* only when a token is held and the time is more than 60 s before
\* accessTokenExpireAt, and otherwise sends a token request; when that
\* request fails the caller sends no status or command request, the relay is
\* not touched and no token is stored.
C22_ExpiryAware ==
    [][\A p \in Procs :
          /\ EnsureCalled(p) =>
                (pc'[p] \in RequestStates
                   <=> (accessToken # Null /\ accessTokenExpireAt - now > 60000))
          /\ AuthFailed(p) =>
                /\ pc'[p] \notin RequestStates
                /\ deviceRelay' = deviceRelay
                /\ <<accessToken', accessTokenExpireAt'>> = <<accessToken, accessTokenExpireAt>>]_vars
\* A token is held, the time is exactly 60 s before its expiry, and a status
\* fetch called at this time is waiting for the answer to its token request.
C22_Witness ==
    /\ accessToken # Null
    /\ accessTokenExpireAt - now = 60000
    /\ \E p \in Procs : pc[p] = "statusToken" /\ resp[p].kind = "ok" /\ resp[p].result.now = now

NoEnforcement == scheduleConfig = Null \/ ~Val(scheduleConfig).isEnabled

\* C23: while the cached schedule is absent or disabled, no step takes
\* enforceSchedule out of its rest: a run of it sends no command, and
\* changes nothing it could only change after a command (lastKnownRelay,
\* control/lastAction, the value it asks for).
C23_NoEnforcement ==
    [][(NoEnforcement /\ pc["sched"] = "idle") =>
          /\ pc'["sched"] \in {"idle", "exited"}
          /\ desired'["sched"] = desired["sched"]
          /\ (\A p \in Procs : pc'[p] = pc[p]) =>
                <<lastKnownRelay', lastAction', deviceRelay'>>
                   = <<lastKnownRelay, lastAction, deviceRelay>>]_vars
\* The schedule is disabled, the relay is taken to be on and the timer may
\* fire: a run that went on to the decision would switch the plug off.
C23_Witness ==
    /\ scheduleConfig # Null
    /\ ~Val(scheduleConfig).isEnabled
    /\ lastKnownRelay = TRUE
    /\ pc["sched"] = "idle"
    /\ events < MaxEvents

\* C24: the cached schedule is always one of the values written to the
\* node, whole; and a run of enforceSchedule that goes on to a toggle took
\* its two readings (the enabled flag, the window) from that one value.
C24_OneSnapshot ==
    [][/\ scheduleConfig' \in ScheduleConfigs
       /\ (pc["sched"] = "idle" /\ pc'["sched"] \notin {"idle", "exited"}) =>
             \E c \in ScheduleConfigs \ {Null} :
                /\ c = scheduleConfig
                /\ Val(c).isEnabled
                /\ desired'["sched"] = isWithinSchedule(now, c)]_vars
\* A run of enforceSchedule decided ON from the overnight schedule, and the
\* schedule was replaced by a disabled one while its toggle is in flight.
C24_Witness ==
    /\ InSection("sched")
    /\ desired["sched"] = TRUE
    /\ scheduleConfig = Some(Disabled)

\* C25: a run of enforceSchedule or of the command watcher whose desired
\* value equals lastKnownRelay sends no command and writes no audit record:
\* from a state where the schedule asks for what lastKnownRelay says, no step
\* starts a toggle of the schedule; a step that starts a toggle of the
\* watcher has a command that differs from lastKnownRelay; and a step in
\* which no handler moves leaves the relay and control/lastAction alone.
C25_Idempotent ==
    [][/\ (pc["sched"] = "idle" /\ ~NoEnforcement
             /\ isWithinSchedule(now, scheduleConfig) = lastKnownRelay)
          => pc'["sched"] \in {"idle", "exited"}
       /\ (pc["cmd"] = "idle" /\ pc'["cmd"] \notin {"idle", "exited"})
          => Val(command').turnOn # lastKnownRelay
       /\ (\A p \in Procs : pc'[p] = pc[p])
          => <<deviceRelay', lastAction'>> = <<deviceRelay, lastAction>>]_vars
\* The schedule's toggle to ON went through and was audited, lastKnownRelay
\* says ON, the schedule still asks for ON and the handler is at rest: its
\* next run is the second one.
C25_Witness ==
    /\ pc["sched"] = "idle"
    /\ lastAction = Some([turnOn |-> TRUE, source |-> "schedule"])
    /\ lastKnownRelay = TRUE
    /\ deviceRelay = TRUE
    /\ isWithinSchedule(now, scheduleConfig) = TRUE

\* C26: in part_002, for an enabled schedule that lists today and whose
\* start is later than its end, isWithinSchedule is true iff
\* now >= start or now < end (minutes of the day).
C26_Overnight002 ==
    (Evaluated /\ scheduleConfig # Null) =>
       LET cfg == Val(scheduleConfig)
           w == WindowOf(cfg)
       IN  (cfg.isEnabled /\ TodayListed(cfg) /\ w.sm > w.em) =>
              (desired["sched"] <=> (MinuteOfDay >= w.sm \/ MinuteOfDay < w.em))

\* The poll handles a status, fetched with success, that reports a relay
\* state the plug has left since: a toggle was accepted after the answer.
StaleObservation ==
    /\ pc["poll"] = "statusWait"
    /\ pc'["poll"] # "statusWait"
    /\ resp["poll"].kind = "ok"
    /\ Telemetry(resp["poll"].result).isOn # deviceRelay

\* C27: when the success of the toggle has been processed (lastKnownRelay is
\* the state the plug is in) and the poll then handles an observation made
\* before the toggle, lastKnownRelay stays what it is.
C27_NoStaleOverwrite ==
    [][(StaleObservation /\ lastKnownRelay = deviceRelay)
          => lastKnownRelay' = lastKnownRelay]_vars

\* No telemetry fetch has come back and no toggle has gone through since the
\* start: lastKnownRelay is still the false it was declared with.
Unestablished == firstCall /\ pc["poll"] # "idle" /\ lastAction = Null

\* C28: while lastKnownRelay is not established, a manual command that asks
\* for a state the plug is not in is not dropped at the comparison with
\* lastKnownRelay: its handler does not end in the step that received it.
C28_NoDefaultSuppression ==
    [][(/\ Unestablished
        /\ pc["cmd"] = "idle"
        /\ <<command', applied'>> # <<command, applied>>
        /\ command' # Null
        /\ Val(command').turnOn # deviceRelay)
          => pc'["cmd"] # "idle"]_vars

\* C29: a command written to control/command is eventually applied by the
\* watcher or cleared, or the plug is at least in the state it asks for.
C29_CommandServed ==
    (command # Null) ~>
       (command = Null \/ applied > 0 \/ deviceRelay = Val(command).turnOn)

\* C30: a step that sends a status or command request to the vendor leaves
\* a token held: the request was built with it.
C30_TokenCarried ==
    [][\A p \in Procs :
          (pc'[p] # pc[p] /\ pc'[p] \in {"statusWait", "commandWait"})
             => accessToken' # Null]_vars

\* The time of day as HH:MM, hours 00 to 23.
HHMM(t) == Pad2(t.hours) \o ":" \o Pad2(t.minutes)

\* This step of the cycle calls toggleDevice.
Toggles001 ==
    /\ pc["poll"] \notin {"commandToken", "commandWait"}
    /\ pc'["poll"] \in {"commandToken", "commandWait"}

\* This step handles a status request that was answered with code 1010 or
\* that threw.
FetchFailed001 ==
    /\ pc["poll"] = "statusWait"
    /\ pc'["poll"] # "statusWait"
    /\ resp["poll"].kind \in {"expired", "error"}

\* This step handles a successful status answer whose reading could not be
\* written.
WriteFailed001 ==
    /\ pc["poll"] = "statusWait"
    /\ pc'["poll"] # "statusWait"
    /\ resp["poll"].kind = "ok"
    /\ readings' = readings

\* This step starts a cycle.
Starts001 == pc["poll"] = "idle" /\ pc'["poll"] # "idle"

\* C31: in the one-shot-schedule variant a cycle calls toggleDevice only
\* after its fetch succeeded and its reading was stored, and only if the
\* schedule it read is enabled, the current HH:MM equals schedule.time and
\* the fetched is_on differs from schedule.action.  A status answer with
\* code 1010, a status request that threw and a reading that could not be
\* written end the cycle with the token absent and no reading appended, and
\* a cycle that starts with the token absent asks for a token first.
C31_OneShotCycle ==
    [][/\ Toggles001 =>
            /\ pc["poll"] = "scheduleWait"
            /\ Len(readings) > 0
            /\ readings[Len(readings)].is_on = resp["poll"].result.is_on
            /\ resp["poll"].result.schedule # Null
            /\ Val(resp["poll"].result.schedule).isEnabled
            /\ Val(resp["poll"].result.schedule).time = HHMM(now)
            /\ resp["poll"].result.is_on # Val(resp["poll"].result.schedule).action
       /\ (FetchFailed001 \/ WriteFailed001) =>
            /\ accessToken' = Null
            /\ readings' = readings
            /\ pc'["poll"] = "idle"
       /\ (Starts001 /\ accessToken = Null) => pc'["poll"] = "tokenWait"]_vars

\* A cycle whose fetch found the plug in the state the schedule does not ask
\* for, at the minute of the schedule, has sent the command.
C31_Witness ==
    /\ pc["poll"] = "commandWait"
    /\ Len(readings) > 0
    /\ readings[Len(readings)].is_on # resp["poll"].result
    /\ scheduleConfig # Null
    /\ Val(scheduleConfig).isEnabled
    /\ Val(scheduleConfig).time = HHMM(now)
    /\ Val(scheduleConfig).action = resp["poll"].result

====
